---------------------------- MODULE Spec2Model ----------------------------
(***************************************************************************)
(* Model of the USMLE prep application: the Gemini client and response     *)
(* validator (src/lib/gemini.ts), the generation endpoint                   *)
(* (src/pages/api/generate.ts), the question store endpoints               *)
(* (src/pages/api/questions.ts), the quiz page with its question card      *)
(* (src/pages/quiz.tsx, components/QuestionCard) and the GenerateButton    *)
(* component.                                                              *)
(*                                                                         *)
(* Conventions.  A JavaScript value is a record tagged by t.  A JSON       *)
(* number n is held as the integer 2*n (field v2), so that the halves      *)
(* 0.5, 1.5, ... are representable.  A string is a sequence of one-letter  *)
(* characters.  A text (the raw answer of the model, a stringified         *)
(* options list) is a sequence of tokens: an opening bracket, a closing    *)
(* bracket, a run of prose, or one complete JSON value other than an       *)
(* array; the commas between the items of an array are not represented.    *)
(* An error message is the sequence of its words, and String.includes is   *)
(* containment of a word sequence.                                         *)
(***************************************************************************)
EXTENDS Integers, Sequences, FiniteSets, TLC

VARIABLES call, out,
          questions, steps, scores, nextId, apiKey, req, res,
          quiz, card, net, button

aiVars  == <<call, out>>
apiVars == <<questions, steps, scores, nextId, apiKey, req, res>>
uiVars  == <<quiz, card, net>>
vars    == <<call, out, questions, steps, scores, nextId, apiKey, req, res,
             quiz, card, net, button>>

-----------------------------------------------------------------------------
(* Bounds of the model *)

\* longest candidate array in a raw answer of the model
MaxElems == 2
\* number of identifiers the store hands out in one behaviour
MaxId == 2

-----------------------------------------------------------------------------
(* JavaScript values *)

Undef == [t |-> "undefined"]
Null == [t |-> "null"]
Str(cs) == [t |-> "string", s |-> cs]
Num(h) == [t |-> "number", v2 |-> h]
Arr(es) == [t |-> "array", elems |-> es]
Obj(q, o, c, e, s) ==
  [t |-> "object", question |-> q, options |-> o, correct |-> c,
   explanation |-> e, subject |-> s]

\* property read q.f : undefined on anything that is not an object with f
Field(v, f) == IF v.t = "object" THEN v[f] ELSE Undef

\* JavaScript truthiness, as used by !x and x || y
Truthy(v) ==
  CASE v.t = "undefined" -> FALSE
    [] v.t = "null" -> FALSE
    [] v.t = "string" -> Len(v.s) # 0
    [] v.t = "number" -> v.v2 # 0
    [] v.t = "text" -> Len(v.toks) # 0
    [] OTHER -> TRUE

\* x || y
OrElse(x, y) == IF Truthy(x) THEN x ELSE y

IsWhite(c) == c = " "

RECURSIVE TrimStart(_)
TrimStart(cs) ==
  IF cs # <<>> /\ IsWhite(Head(cs)) THEN TrimStart(Tail(cs)) ELSE cs

RECURSIVE TrimEnd(_)
TrimEnd(cs) ==
  IF cs # <<>> /\ IsWhite(cs[Len(cs)])
  THEN TrimEnd(SubSeq(cs, 1, Len(cs) - 1)) ELSE cs

\* String.prototype.trim
Trim(cs) == TrimEnd(TrimStart(cs))

\* String(n) for a number held in halves
NumChars(h) ==
  IF h % 2 = 0 THEN <<ToString(h \div 2)>>
  ELSE <<ToString(h \div 2), ".", "5">>

\* typeof opt === 'string' ? opt : String(opt)
StringOf(v) ==
  CASE v.t = "string" -> v
    [] v.t = "number" -> Str(NumChars(v.v2))
    [] v.t = "null" -> Str(<<"n", "u", "l", "l">>)
    [] OTHER -> Str(<<"o", "b", "j">>)

-----------------------------------------------------------------------------
(* Texts and JSON *)

LB == [t |-> "lb"]
RB == [t |-> "rb"]
Prose == [t |-> "prose"]

Text(toks) == [t |-> "text", toks |-> toks]

\* generatedText.match(/\[[\s\S]*\]/) : the span from the first opening
\* bracket that has a closing bracket after it to the last closing bracket
jsonMatch(toks) ==
  LET lbs == {i \in 1..Len(toks) : toks[i] = LB}
      rbs == {j \in 1..Len(toks) : toks[j] = RB}
      ok == \E i \in lbs : \E j \in rbs : i < j
  IN IF ~ok THEN [matched |-> FALSE, toks |-> toks]
     ELSE LET j == CHOOSE m \in rbs : \A n \in rbs : n <= m
              i == CHOOSE m \in lbs : m < j /\ \A n \in lbs : n < j => m <= n
          IN [matched |-> TRUE, toks |-> SubSeq(toks, i, j)]

\* index of the bracket closing the one opened at position i, 0 if none
RECURSIVE CloseOf(_, _, _)
CloseOf(toks, i, depth) ==
  IF i > Len(toks) THEN 0
  ELSE IF toks[i] = LB THEN CloseOf(toks, i + 1, depth + 1)
  ELSE IF toks[i] = RB
       THEN IF depth = 1 THEN i ELSE CloseOf(toks, i + 1, depth - 1)
  ELSE CloseOf(toks, i + 1, depth)

SyntaxFail == [ok |-> FALSE, value |-> Undef]

\* JSON.parse of one value spanning the whole text
RECURSIVE JSONparse(_)
RECURSIVE ParseItems(_, _)
JSONparse(toks) ==
  IF toks = <<>> THEN SyntaxFail
  ELSE IF toks[1].t = "prose" \/ toks[1] = RB THEN SyntaxFail
  ELSE IF toks[1] # LB
       THEN IF Len(toks) = 1 THEN [ok |-> TRUE, value |-> toks[1]]
            ELSE SyntaxFail
  ELSE IF CloseOf(toks, 1, 0) # Len(toks) THEN SyntaxFail
  ELSE ParseItems(SubSeq(toks, 2, Len(toks) - 1), <<>>)

\* the items of an array body, each a scalar token or a nested array
ParseItems(toks, acc) ==
  IF toks = <<>> THEN [ok |-> TRUE, value |-> Arr(acc)]
  ELSE IF toks[1].t = "prose" \/ toks[1] = RB THEN SyntaxFail
  ELSE IF toks[1] # LB
       THEN ParseItems(Tail(toks), Append(acc, toks[1]))
  ELSE LET c == CloseOf(toks, 1, 0)
       IN IF c = 0 THEN SyntaxFail
          ELSE LET inner == JSONparse(SubSeq(toks, 1, c))
               IN IF ~inner.ok THEN SyntaxFail
                  ELSE ParseItems(SubSeq(toks, c + 1, Len(toks)),
                                  Append(acc, inner.value))

\* JSON.stringify of an array of scalars
RECURSIVE JSONstringify(_)
JSONstringify(v) ==
  IF v.t = "array"
  THEN LET RECURSIVE Items(_)
           Items(es) == IF es = <<>> THEN <<>>
                        ELSE JSONstringify(Head(es)).toks \o Items(Tail(es))
       IN Text(<<LB>> \o Items(v.elems) \o <<RB>>)
  ELSE Text(<<v>>)

-----------------------------------------------------------------------------
(* Error messages, as word sequences *)

MsgKeyNotSet ==
  <<"GEMINI_API_KEY", "environment", "variable", "is", "not", "set">>
MsgInvalidKey == <<"Invalid", "Gemini", "API", "key">>
MsgQuota ==
  <<"API", "quota", "exceeded.", "Please", "try", "again", "later.">>
MsgUnavailable ==
  <<"Gemini", "API", "service", "unavailable.", "Please", "try", "again",
    "later.">>
MsgNoResponse == <<"No", "response", "generated", "from", "Gemini", "API">>
MsgParse ==
  <<"Failed", "to", "parse", "questions", "from", "Gemini", "response.",
    "The", "AI", "response", "was", "not", "in", "the", "expected",
    "format.">>
MsgNotArray ==
  <<"Generated", "response", "is", "not", "an", "array", "of", "questions">>
MsgNoValid ==
  <<"No", "valid", "questions", "could", "be", "generated", "from", "the",
    "AI", "response">>
\* TypeError of the property read q.question on a null element
MsgNullRead ==
  <<"Cannot", "read", "properties", "of", "null", "(reading", "'question')">>
\* TypeError of fetch when no response arrives
MsgFetchFailed == <<"fetch", "failed">>
\* SyntaxError of response.json() on a body that is not JSON
MsgBodySyntax == <<"Unexpected", "token", "in", "JSON">>

\* response.statusText : the reason phrase of the status
StatusText(status) ==
  CASE status = 304 -> <<"Not", "Modified">>
    [] status = 400 -> <<"Bad", "Request">>
    [] status = 401 -> <<"Unauthorized">>
    [] status = 403 -> <<"Forbidden">>
    [] status = 404 -> <<"Not", "Found">>
    [] status = 429 -> <<"Too", "Many", "Requests">>
    [] status = 500 -> <<"Internal", "Server", "Error">>
    [] status = 503 -> <<"Service", "Unavailable">>
    [] OTHER -> <<>>

MsgGeneric(status) ==
  <<"Gemini", "API", "error:", ToString(status)>> \o StatusText(status)

\* message.includes(pat)
Includes(msg, pat) ==
  \E i \in 1..Len(msg) :
    i + Len(pat) - 1 <= Len(msg) /\ SubSeq(msg, i, i + Len(pat) - 1) = pat

-----------------------------------------------------------------------------
(* The Gemini client and the response validator *)

\* number of options a generated question must have
NumOptions == 4
\* 2xx range of response.ok
OkLow == 200
OkHigh == 299

ResponseOk(status) == OkLow <= status /\ status <= OkHigh

\* !q.question || typeof q.question !== 'string'
questionInvalid(q) ==
  ~Truthy(Field(q, "question")) \/ Field(q, "question").t # "string"

\* !Array.isArray(q.options) || q.options.length !== 4
optionsInvalid(q) ==
  \/ Field(q, "options").t # "array"
  \/ Len(Field(q, "options").elems) # NumOptions

\* variant: the upper bound of the index compared with > instead of >=
correctInvalid_inclusive(q) ==
  \/ Field(q, "correct").t # "number"
  \/ Field(q, "correct").v2 < 0
  \/ Field(q, "correct").v2 > 2 * NumOptions

\* typeof q.correct !== 'number' || q.correct < 0 || q.correct >= 4
correctInvalid(q) ==
  \/ Field(q, "correct").t # "number"
  \/ Field(q, "correct").v2 < 0
  \/ Field(q, "correct").v2 >= 2 * NumOptions

\* q.options.map(opt => typeof opt === 'string' ? opt : String(opt))
validOptions(opts) == Arr([i \in 1..Len(opts.elems) |-> StringOf(opts.elems[i])])

\* the record pushed on validatedQuestions
pushed(q) ==
  Obj(Str(Trim(q.question.s)), validOptions(q.options), q.correct,
      OrElse(q.explanation, Str(<<>>)), OrElse(q.subject, Str(<<>>)))

Threw(msg, n) == [ok |-> FALSE, questions |-> <<>>, error |-> msg, fetches |-> n]
Returned(qs, n) == [ok |-> TRUE, questions |-> qs, error |-> <<>>, fetches |-> n]

\* the for loop over questions[i]; reading a property of null throws
RECURSIVE validateFrom(_, _, _)
validateFrom(qs, i, validatedQuestions) ==
  IF i > Len(qs) THEN [threw |-> FALSE, validated |-> validatedQuestions]
  ELSE LET q == qs[i]
       IN IF q.t = "null" THEN [threw |-> TRUE, validated |-> validatedQuestions]
          ELSE IF questionInvalid(q) \/ optionsInvalid(q) \/ correctInvalid(q)
               THEN validateFrom(qs, i + 1, validatedQuestions)
          ELSE validateFrom(qs, i + 1, Append(validatedQuestions, pushed(q)))

\* from the parsed value to the result: Array.isArray, the loop, the
\* empty check
validate(parsed) ==
  IF parsed.t # "array" THEN Threw(MsgNotArray, 1)
  ELSE LET r == validateFrom(parsed.elems, 1, <<>>)
       IN IF r.threw THEN Threw(MsgNullRead, 1)
          ELSE IF Len(r.validated) = 0 THEN Threw(MsgNoValid, 1)
          ELSE Returned(r.validated, 1)

\* variant: a syntax error is swallowed and an empty list is carried on
parseGenerated_swallow(generatedText) ==
  LET p == JSONparse(jsonMatch(generatedText.toks).toks)
  IN IF p.ok THEN p ELSE [ok |-> TRUE, value |-> Arr(<<>>)]

\* the inner try: extract the bracketed span, JSON.parse it
parseGenerated(generatedText) ==
  JSONparse(jsonMatch(generatedText.toks).toks)

\* variant: the server-error branch tests > 500
classify_above500(status) ==
  IF status = 401 THEN MsgInvalidKey
  ELSE IF status = 429 THEN MsgQuota
  ELSE IF status > 500 THEN MsgUnavailable
  ELSE MsgGeneric(status)

\* the branch on a response that is not ok
classify(status) ==
  IF status = 401 THEN MsgInvalidKey
  ELSE IF status = 429 THEN MsgQuota
  ELSE IF status >= 500 THEN MsgUnavailable
  ELSE MsgGeneric(status)

\* variant: a response of the server-error class is fetched a second time
generateQuestionsWithGemini_retry(key, up) ==
  IF ~key THEN Threw(MsgKeyNotSet, 0)
  ELSE IF up.t = "network" THEN Threw(MsgFetchFailed, 1)
  ELSE IF ~ResponseOk(up.status)
       THEN Threw(classify(up.status), IF up.status >= 500 THEN 2 ELSE 1)
  ELSE IF up.body.t = "badjson" THEN Threw(MsgBodySyntax, 1)
  ELSE IF up.body.candidates.t # "array" \/ Len(up.body.candidates.elems) = 0
       THEN Threw(MsgNoResponse, 1)
  ELSE LET p == parseGenerated(up.body.candidates.elems[1])
       IN IF ~p.ok THEN Threw(MsgParse, 1) ELSE validate(p.value)

\* generateQuestionsWithGemini(prompt, count) with the environment's key
\* and the outcome of the one fetch
generateQuestionsWithGemini(key, up) ==
  IF ~key THEN Threw(MsgKeyNotSet, 0)
  ELSE IF up.t = "network" THEN Threw(MsgFetchFailed, 1)
  ELSE IF ~ResponseOk(up.status) THEN Threw(classify(up.status), 1)
  ELSE IF up.body.t = "badjson" THEN Threw(MsgBodySyntax, 1)
  ELSE IF up.body.candidates.t # "array" \/ Len(up.body.candidates.elems) = 0
       THEN Threw(MsgNoResponse, 1)
  ELSE LET p == parseGenerated(up.body.candidates.elems[1])
       IN IF ~p.ok THEN Threw(MsgParse, 1) ELSE validate(p.value)

-----------------------------------------------------------------------------
(* Inputs: candidate elements, raw answers, upstream outcomes *)

Q1 == Str(<<"Q">>)
Opts4 == Arr(<<Str(<<"a">>), Str(<<"b">>), Str(<<"c">>), Str(<<"d">>)>>)
Opts3 == Arr(<<Str(<<"a">>), Str(<<"b">>), Str(<<"c">>)>>)
Opts5 ==
  Arr(<<Str(<<"a">>), Str(<<"b">>), Str(<<"c">>), Str(<<"d">>), Str(<<"e">>)>>)
OptsMixed == Arr(<<Str(<<"a">>), Num(14), Null, Str(<<>>)>>)
Expl == Str(<<"E">>)
Subj == Str(<<"S">>)

\* a well-formed candidate, and candidates that each depart from it
Valid1 == Obj(Q1, Opts4, Num(2), Expl, Subj)
Valid2 == Obj(Str(<<"R">>), Opts4, Num(0), Undef, Undef)

Candidates ==
  { Valid1, Valid2,
    Obj(Str(<<>>), Opts4, Num(2), Expl, Subj),
    Obj(Str(<<" ">>), Opts4, Num(2), Expl, Subj),
    Obj(Str(<<" ", "Q", " ">>), Opts4, Num(6), Expl, Subj),
    Obj(Num(2), Opts4, Num(2), Expl, Subj),
    Obj(Undef, Opts4, Num(2), Expl, Subj),
    Obj(Q1, Opts3, Num(2), Expl, Subj),
    Obj(Q1, Opts5, Num(2), Expl, Subj),
    Obj(Q1, Str(<<"a", "b", "c", "d">>), Num(2), Expl, Subj),
    Obj(Q1, Undef, Num(2), Expl, Subj),
    Obj(Q1, OptsMixed, Num(2), Expl, Subj),
    Obj(Q1, Opts4, Num(8), Expl, Subj),
    Obj(Q1, Opts4, Num(-2), Expl, Subj),
    Obj(Q1, Opts4, Num(3), Expl, Subj),
    Obj(Q1, Opts4, Num(7), Expl, Subj),
    Obj(Q1, Opts4, Str(<<"1">>), Expl, Subj),
    Obj(Q1, Opts4, Undef, Expl, Subj),
    Null,
    Num(2) }

RECURSIVE SeqsUpTo(_, _)
SeqsUpTo(S, n) ==
  IF n = 0 THEN {<<>>}
  ELSE LET shorter == SeqsUpTo(S, n - 1)
       IN shorter \cup {Append(q, e) : q \in shorter, e \in S}

\* text around the candidate array: nothing, prose, brackets
Prefixes == {<<>>, <<Prose>>, <<LB>>, <<LB, RB>>}
Suffixes == {<<>>, <<Prose>>, <<RB>>}

RawTexts(cands, n) ==
  {Text(pre \o <<LB>> \o es \o <<RB>> \o suf) :
     pre \in Prefixes, es \in SeqsUpTo(cands, n), suf \in Suffixes}
  \cup {Text(<<>>), Text(<<Prose>>), Text(<<Valid1>>), Text(<<Null>>),
        Text(<<RB, LB>>), Text(<<LB, Prose, RB>>)}

BadJson == [t |-> "badjson"]
Envelope(cs) == [t |-> "envelope", candidates |-> cs]
Network == [t |-> "network"]
Http(status, body) == [t |-> "http", status |-> status, body |-> body]

FailStatuses == {304, 400, 401, 403, 404, 429, 500, 503}

Upstreams(texts) ==
  {Network}
  \cup {Http(st, BadJson) : st \in FailStatuses}
  \cup {Http(200, BadJson), Http(200, Envelope(Undef)),
        Http(200, Envelope(Arr(<<>>)))}
  \cup {Http(200, Envelope(Arr(<<tx>>))) : tx \in texts}

-----------------------------------------------------------------------------
(* POST /api/generate *)

Medium == Str(<<"Medium">>)
Hard == Str(<<"Hard">>)

\* !prompt || typeof prompt !== 'string'
promptInvalid(body) == ~Truthy(body.prompt) \/ body.prompt.t # "string"

\* variant: the handler does not look at the key
keyMissing_unchecked(key) == FALSE

\* !process.env.GEMINI_API_KEY
keyMissing(key) == ~key

\* difficulty = 'Medium' by default in the destructuring of req.body
difficultyOf(body) ==
  IF body.difficulty.t = "undefined" THEN Medium ELSE body.difficulty

\* the catch block: the status chosen from the words of error.message
errorStatus(msg) ==
  IF Includes(msg, <<"API", "key">>) THEN 401
  ELSE IF Includes(msg, <<"quota">>) \/ Includes(msg, <<"limit">>) THEN 429
  ELSE IF Includes(msg, <<"network">>) \/ Includes(msg, <<"fetch">>) THEN 503
  ELSE 500

errorText(msg) ==
  IF Includes(msg, <<"API", "key">>) THEN "Invalid or missing Gemini API key"
  ELSE IF Includes(msg, <<"quota">>) \/ Includes(msg, <<"limit">>)
       THEN "API quota exceeded. Please try again later."
  ELSE IF Includes(msg, <<"network">>) \/ Includes(msg, <<"fetch">>)
       THEN "Network error. Please check your internet connection and try again."
  ELSE "Internal server error. Please try again later."

\* the document built for one generated question
questionDoc(question, difficulty) ==
  [question |-> question.question,
   options |-> JSONstringify(question.options),
   correct |-> question.correct,
   explanation |-> OrElse(question.explanation, Str(<<>>)),
   subject |-> OrElse(question.subject, Str(<<>>)),
   difficulty |-> difficulty,
   type |-> "ai-generated"]

WithId(id, doc) == [id |-> id] @@ doc

\* variant: the first insertOne that fails ends the loop
RECURSIVE saveFrom_abort(_, _, _, _, _, _)
saveFrom_abort(generated, i, difficulty, fail, id, savedQuestions) ==
  IF i > Len(generated) \/ i \in fail
  THEN [saved |-> savedQuestions, next |-> id]
  ELSE saveFrom_abort(generated, i + 1, difficulty, fail, id + 1,
                      Append(savedQuestions,
                             WithId(id, questionDoc(generated[i], difficulty))))

\* the loop over generatedQuestions: insertOne fails on the positions in
\* fail, and such a question is skipped
RECURSIVE saveFrom(_, _, _, _, _, _)
saveFrom(generated, i, difficulty, fail, id, savedQuestions) ==
  IF i > Len(generated) THEN [saved |-> savedQuestions, next |-> id]
  ELSE IF i \in fail
       THEN saveFrom(generated, i + 1, difficulty, fail, id, savedQuestions)
  ELSE saveFrom(generated, i + 1, difficulty, fail, id + 1,
                Append(savedQuestions,
                       WithId(id, questionDoc(generated[i], difficulty))))

NoAi == [ok |-> FALSE, questions |-> <<>>, error |-> <<>>, fetches |-> 0]

GenFail(status, error, ai) ==
  [kind |-> "generate", status |-> status, success |-> FALSE, error |-> error,
   saved |-> <<>>, ai |-> ai, fetches |-> ai.fetches, next |-> 0]

\* the handler of /api/generate: the response, the documents inserted and
\* the next free identifier (0 when nothing is inserted)
handlerGenerate(method, body, key, up, fail, id) ==
  IF method # "POST" THEN GenFail(405, "Method not allowed", NoAi)
  ELSE IF promptInvalid(body)
       THEN GenFail(400, "Valid prompt is required", NoAi)
  ELSE IF keyMissing(key)
       THEN GenFail(500, "Gemini API key not configured. Please set GEMINI_API_KEY in environment variables.", NoAi)
  ELSE LET ai == generateQuestionsWithGemini(key, up)
       IN IF ~ai.ok
          THEN GenFail(errorStatus(ai.error), errorText(ai.error), ai)
          ELSE IF Len(ai.questions) = 0
               THEN GenFail(500, "Failed to generate questions. Please try again.", ai)
          ELSE LET r == saveFrom(ai.questions, 1, difficultyOf(body), fail,
                                 id, <<>>)
               IN [kind |-> "generate", status |-> 200, success |-> TRUE,
                   error |-> "", saved |-> r.saved, ai |-> ai,
                   fetches |-> ai.fetches, next |-> r.next]

\* the request gets as far as calling the client
reachesCall(method, body, key) ==
  method = "POST" /\ ~promptInvalid(body) /\ ~keyMissing(key)

-----------------------------------------------------------------------------
(* /api/questions *)

\* an identifier as sent by a client: 24 hexadecimal digits naming n, or a
\* string that is not an ObjectId
OidStr(n) == [t |-> "oid", hex |-> TRUE, n |-> n]
BadOid == [t |-> "oid", hex |-> FALSE, n |-> 0]

\* a query parameter holding the digits of n
Digits(n) == [t |-> "digits", n |-> n]

\* parseInt of a query parameter
parseInt(v) == v.n

\* default size of a step's share in mixed mode
DefaultShare == 20

\* Math.ceil(n / 3)
CeilThird(n) == (n + 2) \div 3

QFail(kind, status, error) ==
  [kind |-> kind, status |-> status, error |-> error, next |-> 0]

\* variant: the index may equal the number of options
correctOutOfRange_inclusive(correct, parsedOptions) ==
  correct.v2 < 0 \/ correct.v2 > 2 * Len(parsedOptions.elems)

\* body.correct < 0 || body.correct >= parsedOptions.length
correctOutOfRange(correct, parsedOptions) ==
  correct.v2 < 0 \/ correct.v2 >= 2 * Len(parsedOptions.elems)

\* the creation branch of handlePost
handlePost(body, id) ==
  IF ~Truthy(body.question) \/ ~Truthy(body.options)
     \/ body.correct.t # "number"
  THEN QFail("post", 400,
             "Question, options, and correct answer index are required")
  ELSE LET parsed == IF body.options.t = "text"
                     THEN JSONparse(body.options.toks)
                     ELSE [ok |-> TRUE, value |-> body.options]
           parsedOptions == parsed.value
       IN IF ~parsed.ok \/ parsedOptions.t # "array"
             \/ Len(parsedOptions.elems) < 2
          THEN QFail("post", 400,
                     "Options must be a valid JSON array of at least 2 items")
          ELSE IF correctOutOfRange(body.correct, parsedOptions)
               THEN QFail("post", 400, "Correct answer index must be between")
          ELSE LET doc ==
                     [question |-> body.question,
                      options |-> IF body.options.t = "text" THEN body.options
                                  ELSE JSONstringify(body.options),
                      correct |-> body.correct,
                      explanation |-> OrElse(body.explanation, Str(<<>>)),
                      subject |-> OrElse(body.subject, Str(<<>>)),
                      difficulty |-> OrElse(body.difficulty, Medium),
                      type |-> "ai-generated"]
               IN [kind |-> "post", status |-> 201, error |-> "",
                   created |-> WithId(id, doc), next |-> id + 1]

\* a number that no JSON number carries: the results of a division by zero
NaN == [t |-> "nan"]
Infinity(negative) == [t |-> "infinity", negative |-> negative]

RECURSIVE GCD(_, _)
GCD(a, b) == IF b = 0 THEN a ELSE GCD(b, a % b)

Abs(n) == IF n < 0 THEN 0 - n ELSE n

\* the quotient n / d of two integers, d # 0: a number held in halves when
\* it is one, the reduced fraction when it is not
Quotient(n, d) ==
  LET sn == IF d < 0 THEN 0 - n ELSE n
      sd == Abs(d)
      g == GCD(Abs(sn), sd)
  IN IF (2 * sn) % sd = 0 THEN Num((2 * sn) \div sd)
     ELSE [t |-> "fraction", num |-> sn \div g, den |-> sd \div g]

\* (body.score / body.total) * 100
percentageOf(score, total) ==
  IF total.v2 = 0
  THEN IF score.v2 = 0 THEN NaN ELSE Infinity(score.v2 < 0)
  ELSE Quotient(100 * score.v2, total.v2)

\* a number as res.json writes it: NaN and the infinities become null
jsonNumber(v) == IF v.t \in {"nan", "infinity"} THEN Null ELSE v

\* the score branch of handlePost
handleScore(body, id) ==
  IF body.score.t # "number" \/ body.total.t # "number"
  THEN QFail("score", 400,
             "Score and total are required for score submission")
  ELSE LET percentage ==
             IF Truthy(body.percentage) THEN body.percentage
             ELSE percentageOf(body.score, body.total)
           doc == [score |-> body.score, total |-> body.total,
                   percentage |-> percentage, duration |-> body.duration,
                   step |-> OrElse(body.step, Str(<<"mixed">>))]
       IN [kind |-> "score", status |-> 201, error |-> "",
           created |-> WithId(id, doc),
           returned |-> [score |-> body.score, total |-> body.total,
                         percentage |-> jsonNumber(percentage),
                         step |-> OrElse(body.step, Str(<<"mixed">>))],
           next |-> id + 1]

\* variant: every record of the collection is deleted
deleteMany_all(coll, ids) == <<>>

\* deleteMany({_id: {$in: objectIds}}) on the questions collection
deleteMany(coll, ids) ==
  LET named == {ids[i].n : i \in 1..Len(ids)}
  IN SelectSeq(coll, LAMBDA d : d.id \notin named)

handleDelete(ids, coll) ==
  IF ~Truthy(ids) \/ ids.t # "array" \/ Len(ids.elems) = 0
  THEN [kind |-> "delete", status |-> 400,
        error |-> "Array of question IDs is required", count |-> 0,
        remaining |-> coll]
  ELSE IF \E i \in 1..Len(ids.elems) : ~ids.elems[i].hex
       THEN [kind |-> "delete", status |-> 500,
             error |-> "Internal server error", count |-> 0,
             remaining |-> coll]
  ELSE LET remaining == deleteMany(coll, ids.elems)
       IN [kind |-> "delete", status |-> 200, error |-> "",
           count |-> Len(coll) - Len(remaining), remaining |-> remaining]

\* find({}).sort({questionNumber: 1})
RECURSIVE sortByNumber(_)
sortByNumber(coll) ==
  IF coll = <<>> THEN <<>>
  ELSE LET m == CHOOSE i \in 1..Len(coll) :
                  \A j \in 1..Len(coll) :
                    \/ coll[i].questionNumber < coll[j].questionNumber
                    \/ (coll[i].questionNumber = coll[j].questionNumber /\ i <= j)
           rest == [k \in 1..(Len(coll) - 1) |->
                      IF k < m THEN coll[k] ELSE coll[k + 1]]
       IN <<coll[m]>> \o sortByNumber(rest)

\* cursor.limit(n): 0 is no limit
limitTo(coll, n) ==
  IF n = 0 \/ n >= Len(coll) THEN coll ELSE SubSeq(coll, 1, n)

\* the options of a step question: the non-empty ones of optionA..optionE
stepOptions(q) ==
  LET all == <<OrElse(q.optionA, Str(<<>>)), OrElse(q.optionB, Str(<<>>)),
               OrElse(q.optionC, Str(<<>>)), OrElse(q.optionD, Str(<<>>)),
               OrElse(q.optionE, Str(<<>>))>>
  IN JSONstringify(Arr(SelectSeq(all, LAMBDA o : Len(o.s) > 0)))

\* the map from a stored step question to the listed question
transform(q, step) ==
  [id |-> q.id,
   question |-> OrElse(q.questionText, Str(<<>>)),
   options |-> stepOptions(q),
   correct |-> OrElse(q.correctAnswer, Num(0)),
   explanation |-> OrElse(q.explanation, Str(<<>>)),
   subject |-> OrElse(q.subject, Str(<<"Step", step>>)),
   difficulty |-> OrElse(q.difficulty, Medium),
   questionNumber |-> q.questionNumber,
   step |-> step]

transformAll(coll, step) == [i \in 1..Len(coll) |-> transform(coll[i], step)]

\* the listing of one step
stepQuestions(st, step, limit) ==
  transformAll(limitTo(sortByNumber(st[step]),
                       IF Truthy(limit) THEN parseInt(limit) ELSE 0), step)

\* mixed mode: the merged listing before the shuffle
allQuestions(st, limit) ==
  LET share == IF Truthy(limit) THEN CeilThird(parseInt(limit))
               ELSE DefaultShare
      part(step) == transformAll(limitTo(sortByNumber(st[step]), share), step)
  IN part("1") \o part("2") \o part("3")

Perms(n) == {f \in [1..n -> 1..n] : \A i, j \in 1..n : f[i] = f[j] => i = j}

\* variant: the shuffled list is not sliced
mixedQuestions_unsliced(st, limit, perm) ==
  LET all == allQuestions(st, limit)
  IN [i \in 1..Len(all) |-> all[perm[i]]]

\* mixed mode: the shuffle by perm, then the slice
mixedQuestions(st, limit, perm) ==
  LET all == allQuestions(st, limit)
      shuffled == [i \in 1..Len(all) |-> all[perm[i]]]
  IN IF Truthy(limit)
     THEN SubSeq(shuffled, 1, IF parseInt(limit) < Len(all)
                              THEN parseInt(limit) ELSE Len(all))
     ELSE shuffled

\* scores, most recent first, limited
recentScores(sc, limit) ==
  LET n == IF Truthy(limit) THEN parseInt(limit) ELSE 10
      rev == [i \in 1..Len(sc) |-> sc[Len(sc) + 1 - i]]
  IN limitTo(rev, n)

handleGet(query, st, qs, sc, perm) ==
  IF query.type = "stats"
  THEN [kind |-> "get", status |-> 200,
        stats |-> [step1 |-> Len(st["1"]), step2 |-> Len(st["2"]),
                   step3 |-> Len(st["3"]), aiGenerated |-> Len(qs),
                   stepTotal |-> Len(st["1"]) + Len(st["2"]) + Len(st["3"]),
                   total |-> Len(st["1"]) + Len(st["2"]) + Len(st["3"])
                             + Len(qs)],
        list |-> <<>>]
  ELSE IF query.type = "scores"
       THEN [kind |-> "get", status |-> 200, stats |-> <<>>,
             list |-> recentScores(sc, query.limit)]
  ELSE IF query.step # ""
       THEN [kind |-> "get", status |-> 200, stats |-> <<>>,
             list |-> stepQuestions(st, query.step, query.limit)]
  ELSE [kind |-> "get", status |-> 200, stats |-> <<>>,
        list |-> mixedQuestions(st, query.limit, perm)]

-----------------------------------------------------------------------------
(* The server: store, environment, last request and its response *)

StepDoc(id, number, answer, optionE) ==
  [id |-> id, questionText |-> Str(<<"T", ToString(id)>>),
   optionA |-> Str(<<"a">>), optionB |-> Str(<<"b">>),
   optionC |-> Str(<<"c">>), optionD |-> Str(<<"d">>), optionE |-> optionE,
   correctAnswer |-> answer, explanation |-> Undef, subject |-> Undef,
   difficulty |-> Undef, questionNumber |-> number]

\* the imported step collections, in insertion order
StepData ==
  [step \in {"1", "2", "3"} |->
     CASE step = "1" -> <<StepDoc(102, 2, Num(8), Str(<<"e">>)),
                          StepDoc(101, 1, Undef, Undef)>>
       [] step = "2" -> <<>>
       [] OTHER -> <<StepDoc(103, 1, Num(6), Str(<<>>))>>]

IdleReq == [kind |-> "none"]
IdleRes == [kind |-> "none", status |-> 0]

ApiInit ==
  /\ questions = <<>>
  /\ steps = StepData
  /\ scores = <<>>
  /\ nextId = 1
  /\ apiKey \in BOOLEAN
  /\ req = IdleReq
  /\ res = IdleRes

AiIdle ==
  /\ call = [key |-> FALSE, up |-> Network]
  /\ out = [t |-> "unused"]

\* the quiz page as useState leaves it: no question, loading, router not
\* ready
Quiz0 ==
  [questions |-> <<>>, currentIndex |-> 0, answers |-> <<>>,
   showFinalResults |-> FALSE, loading |-> TRUE, error |-> "",
   currentStep |-> "", showNavigation |-> FALSE, routerStep |-> "none"]

\* the state of a question card that is not rendered, which is also the
\* useState of a card before it is mounted; selectedAnswer -1 is null
NoCard ==
  [mounted |-> FALSE, selectedAnswer |-> -1, hasAnswered |-> FALSE,
   showExplanation |-> FALSE, effectPending |-> FALSE, timers |-> 0]

\* the values router.query.step takes; "" is no step
StepArgs == {"", "1", "2"}

\* the requests of the page in flight: the fetches by their step and the
\* number of score requests; the number of score requests issued since the
\* question set was loaded; the outcome of the fetch that has just
\* resolved; the body of the score request that has just been sent
Net0 ==
  [fetches |-> [s \in StepArgs |-> 0], posts |-> 0, issued |-> 0,
   last |-> "none", posted |-> Undef]

\* the GenerateButton as useState leaves it, with no request in flight
Button0 ==
  [isGenerating |-> FALSE, showPromptForm |-> FALSE,
   prompt |-> [topic |-> "", count |-> 5, difficulty |-> "Medium"],
   error |-> "", success |-> "",
   pending |-> [quick |-> 0, custom |-> 0]]

UiIdle == quiz = Quiz0 /\ card = NoCard /\ net = Net0 /\ button = Button0

Init == ApiInit /\ AiIdle /\ UiIdle

\* requests and upstream outcomes the server is driven with
GenBody(prompt, difficulty) == [prompt |-> prompt, difficulty |-> difficulty]

ApiTexts ==
  {Text(<<LB, Valid1, RB>>),
   Text(<<Prose, LB, Valid2, Obj(Q1, Opts4, Num(8), Expl, Subj), RB, Prose>>),
   Text(<<LB, Valid1, Valid2, RB>>),
   Text(<<LB, RB>>),
   Text(<<LB, Obj(Q1, Opts3, Num(2), Expl, Subj), RB>>),
   Text(<<LB, Null, RB>>),
   Text(<<Prose>>),
   Text(<<Valid1>>),
   Text(<<LB, RB, Prose, LB, Valid1, RB>>)}

ApiUpstreams ==
  {Network, Http(200, BadJson), Http(200, Envelope(Undef)),
   Http(200, Envelope(Arr(<<>>)))}
  \cup {Http(st, BadJson) : st \in {401, 403, 429, 503}}
  \cup {Http(200, Envelope(Arr(<<tx>>))) : tx \in ApiTexts}

HardText ==
  Text(<<Prose, LB, Valid2, Obj(Q1, Opts4, Num(8), Expl, Subj), RB, Prose>>)

GenerateInputs ==
  {[method |-> "POST", body |-> GenBody(Str(<<"t">>), Undef), up |-> up] :
     up \in ApiUpstreams}
  \cup {[method |-> "POST", body |-> GenBody(Str(<<"t">>), Hard),
         up |-> Http(200, Envelope(Arr(<<HardText>>)))],
        [method |-> "POST", body |-> GenBody(Undef, Undef), up |-> Network],
        [method |-> "POST", body |-> GenBody(Str(<<>>), Hard), up |-> Network],
        [method |-> "POST", body |-> GenBody(Num(2), Undef), up |-> Network],
        [method |-> "GET", body |-> GenBody(Str(<<"t">>), Undef),
         up |-> Network]}

\* a request is served when the upstream outcome is one it can meet: a
\* request that never calls the client meets none
Generate ==
  \E in \in GenerateInputs :
    /\ reachesCall(in.method, in.body, apiKey) \/ in.up = Network
    /\ LET ai == IF reachesCall(in.method, in.body, apiKey)
                 THEN generateQuestionsWithGemini(apiKey, in.up) ELSE NoAi
       IN \E fail \in SUBSET (1..Len(ai.questions)) :
            LET r == handlerGenerate(in.method, in.body, apiKey, in.up, fail,
                                     nextId)
            IN /\ r.next <= MaxId + 1
               /\ req' = [kind |-> "generate", method |-> in.method,
                          body |-> in.body, up |-> in.up, fail |-> fail]
               /\ res' = r
               /\ questions' = questions \o r.saved
               /\ nextId' = IF r.next = 0 THEN nextId ELSE r.next
    /\ UNCHANGED <<call, out, steps, scores, apiKey, quiz, card, net, button>>

PostBody(q, o, c) ==
  [question |-> q, options |-> o, correct |-> c, explanation |-> Undef,
   subject |-> Subj, difficulty |-> Undef]

TwoOptions == Text(<<LB, Str(<<"a">>), Str(<<"b">>), RB>>)

PostBodies ==
  {PostBody(Q1, Opts3, Num(2)),
   PostBody(Q1, TwoOptions, Num(3)),
   PostBody(Q1, TwoOptions, Num(4)),
   PostBody(Q1, Opts3, Num(6)),
   PostBody(Q1, Opts3, Num(-2)),
   PostBody(Q1, Opts3, Undef),
   PostBody(Q1, Opts3, Str(<<"1">>)),
   PostBody(Undef, Opts3, Num(2)),
   PostBody(Q1, Undef, Num(2)),
   PostBody(Q1, Arr(<<Str(<<"a">>)>>), Num(0)),
   PostBody(Q1, Text(<<Prose>>), Num(2)),
   PostBody(Q1, Text(<<Str(<<"a">>)>>), Num(0)),
   PostBody(Q1, Text(<<>>), Num(0))}

\* variant: a created question takes the place of the newest record
PostQuestion_replacing ==
  \E body \in PostBodies :
    LET r == handlePost(body, nextId)
    IN /\ r.next <= MaxId + 1
       /\ req' = [kind |-> "post", body |-> body]
       /\ res' = r
       /\ questions' = IF r.status # 201 THEN questions
                       ELSE IF questions = <<>> THEN <<r.created>>
                       ELSE [questions EXCEPT ![Len(questions)] = r.created]
       /\ nextId' = IF r.next = 0 THEN nextId ELSE r.next
       /\ UNCHANGED <<call, out, steps, scores, apiKey, quiz, card, net, button>>

PostQuestion ==
  \E body \in PostBodies :
    LET r == handlePost(body, nextId)
    IN /\ r.next <= MaxId + 1
       /\ req' = [kind |-> "post", body |-> body]
       /\ res' = r
       /\ questions' = IF r.status = 201 THEN Append(questions, r.created)
                       ELSE questions
       /\ nextId' = IF r.next = 0 THEN nextId ELSE r.next
       /\ UNCHANGED <<call, out, steps, scores, apiKey, quiz, card, net, button>>

ScoreBody(score, total, percentage, step) ==
  [type |-> "score", score |-> score, total |-> total,
   percentage |-> percentage, duration |-> Undef, step |-> step]

\* score submissions of every kind: a plain one, a fraction, a total of 0,
\* a score above the total with its own percentage, and two without a number
ScoreBodies ==
  {ScoreBody(Num(14), Num(20), Undef, Str(<<"1">>)),
   ScoreBody(Num(2), Num(6), Undef, Undef),
   ScoreBody(Num(0), Num(0), Undef, Undef),
   ScoreBody(Num(6), Num(4), Num(100), Undef),
   ScoreBody(Undef, Num(20), Undef, Undef),
   ScoreBody(Num(14), Str(<<"1", "0">>), Num(140), Undef)}

\* the score submissions the whole server is driven with
ApiScoreBodies ==
  {ScoreBody(Num(14), Num(20), Undef, Str(<<"1">>)),
   ScoreBody(Undef, Num(20), Undef, Undef)}

\* POST /api/questions with type 'score'
PostScoreFrom(bodies) ==
  \E body \in bodies :
    LET r == handleScore(body, nextId)
    IN /\ r.next <= MaxId + 1
       /\ req' = [kind |-> "score", body |-> body]
       /\ res' = r
       /\ scores' = IF r.status = 201 THEN Append(scores, r.created)
                    ELSE scores
       /\ nextId' = IF r.next = 0 THEN nextId ELSE r.next
       /\ UNCHANGED <<call, out, questions, steps, apiKey, quiz, card, net, button>>

PostScore == PostScoreFrom(ApiScoreBodies)

DeleteBodies ==
  {Undef, Arr(<<>>), Str(<<"1">>), Arr(<<BadOid>>), Arr(<<OidStr(101)>>),
   Arr(<<OidStr(1), OidStr(2)>>)}
  \cup {Arr(<<OidStr(n)>>) : n \in 1..(MaxId + 1)}

\* variant: the identifiers are deleted from the scores as well
Delete_withScores ==
  \E ids \in DeleteBodies :
    LET r == handleDelete(ids, questions)
    IN /\ req' = [kind |-> "delete", ids |-> ids]
       /\ res' = [kind |-> "delete", status |-> r.status, error |-> r.error,
                  count |-> r.count]
       /\ questions' = r.remaining
       /\ scores' = IF r.status = 200 THEN deleteMany(scores, ids.elems)
                    ELSE scores
       /\ UNCHANGED <<call, out, steps, nextId, apiKey, quiz, card, net, button>>

\* variant: the identifiers are deleted from the step collections as well
Delete_everyCollection ==
  \E ids \in DeleteBodies :
    LET r == handleDelete(ids, questions)
    IN /\ req' = [kind |-> "delete", ids |-> ids]
       /\ res' = [kind |-> "delete", status |-> r.status, error |-> r.error,
                  count |-> r.count]
       /\ questions' = r.remaining
       /\ steps' = IF r.status = 200
                   THEN [step \in DOMAIN steps |->
                           deleteMany(steps[step], ids.elems)]
                   ELSE steps
       /\ UNCHANGED <<call, out, scores, nextId, apiKey, quiz, card, net, button>>

Delete ==
  \E ids \in DeleteBodies :
    LET r == handleDelete(ids, questions)
    IN /\ req' = [kind |-> "delete", ids |-> ids]
       /\ res' = [kind |-> "delete", status |-> r.status, error |-> r.error,
                  count |-> r.count]
       /\ questions' = r.remaining
       /\ UNCHANGED <<call, out, steps, scores, nextId, apiKey, quiz, card, net, button>>

Query(type, step, limit) == [type |-> type, step |-> step, limit |-> limit]

Queries ==
  {Query("stats", "", Undef), Query("scores", "", Undef),
   Query("", "1", Undef), Query("", "1", Digits(1)), Query("", "3", Undef),
   Query("", "", Undef), Query("", "", Digits(1)), Query("", "", Digits(6))}

IsMixed(query) == query.type = "" /\ query.step = ""

\* the shuffle is any permutation of the merged list
GetFrom(queries) ==
  \E query \in queries :
    \E perm \in IF IsMixed(query)
               THEN Perms(Len(allQuestions(steps, query.limit)))
               ELSE {<<>>} :
      /\ req' = [kind |-> "get", query |-> query]
      /\ res' = handleGet(query, steps, questions, scores, perm)
      /\ UNCHANGED <<call, out, questions, steps, scores, nextId, apiKey, quiz, card, net, button>>

Get == GetFrom(Queries)

Next == Generate \/ PostQuestion \/ PostScore \/ Delete \/ Get

Spec == Init /\ [][Next]_vars

-----------------------------------------------------------------------------
(* The score requests on their own *)

ScoreQueries == {Query("scores", "", Undef), Query("scores", "", Digits(1))}

SubmitScore == PostScoreFrom(ScoreBodies)

ListScores == GetFrom(ScoreQueries)

ScoresNext == SubmitScore \/ ListScores

SpecScores == Init /\ [][ScoresNext]_vars

-----------------------------------------------------------------------------
(* The mixed listing on its own, over several fillings of the store *)

\* the largest limit asked for
MaxLimit == 4

\* fillings of the step collections, in insertion order
ListingSteps ==
  {[step \in {"1", "2", "3"} |->
      CASE step = "1" -> s1 [] step = "2" -> s2 [] OTHER -> s3] :
     s1 \in {<<>>, <<StepDoc(102, 2, Num(8), Str(<<"e">>)),
                     StepDoc(101, 1, Undef, Undef)>>},
     s2 \in {<<>>, <<StepDoc(105, 1, Num(2), Undef)>>},
     s3 \in {<<StepDoc(103, 1, Num(6), Str(<<>>))>>,
             <<StepDoc(106, 7, Num(4), Undef),
               StepDoc(103, 1, Num(6), Str(<<>>))>>}}

\* GET /api/questions?limit=N for N = 0 .. MaxLimit
ListingQueries == {Query("", "", Digits(n)) : n \in 0..MaxLimit}

\* a store with or without an AI-generated question in it
ListingInit ==
  /\ steps \in ListingSteps
  /\ \/ questions = <<>> /\ nextId = 1
     \/ /\ questions = <<WithId(1, questionDoc(Valid1, Medium))>>
        /\ nextId = 2
  /\ scores = <<>> /\ apiKey = TRUE /\ req = IdleReq /\ res = IdleRes
  /\ AiIdle /\ UiIdle

ListMixed == GetFrom(ListingQueries)

SpecListing == ListingInit /\ [][ListMixed]_vars

-----------------------------------------------------------------------------
(* The Gemini client on its own: one call per behaviour *)

Pending == [t |-> "pending"]

GeminiInit ==
  /\ call \in [key : BOOLEAN, up : Upstreams(RawTexts(Candidates, MaxElems))]
  /\ out = Pending
  /\ ApiInit
  /\ UiIdle

GeminiCall ==
  /\ out = Pending
  /\ out' = generateQuestionsWithGemini(call.key, call.up)
  /\ UNCHANGED <<call, questions, steps, scores, nextId, apiKey, req, res, quiz, card, net, button>>

GeminiNext == GeminiCall

SpecGemini == GeminiInit /\ [][GeminiNext]_vars

-----------------------------------------------------------------------------
(* The quiz page and its question card *)

\* at most this many fetches of a question set in flight
MaxFetches == 2
\* at most this many score requests in flight
MaxPosts == 2
\* at most this many reveal timers of the card pending
MaxTimers == 1

\* which of the four returns of the page renders
View(q) ==
  IF q.loading THEN "Loading"
  ELSE IF q.error # "" THEN "Error"
  ELSE IF q.showFinalResults THEN "Results"
  ELSE "Quiz"

\* {currentQuestion && <QuestionCard .../>} in the quiz view
Mounted(q) == View(q) = "Quiz" /\ q.currentIndex < Len(q.questions)

currentQuestion(q) == q.questions[q.currentIndex + 1]

\* [question.id, isAnswered, userAnswer], the dependencies of the effect
Deps(q) ==
  LET id == currentQuestion(q).id
  IN IF id \in DOMAIN q.answers
     THEN <<id, TRUE, q.answers[id].selectedAnswer>>
     ELSE <<id, FALSE, -1>>

\* the body of the card's effect, run with the props of quiz state q
cardSync(q, c) ==
  IF Deps(q)[2]
  THEN [c EXCEPT !.selectedAnswer = Deps(q)[3], !.hasAnswered = TRUE,
                 !.showExplanation = TRUE, !.effectPending = FALSE]
  ELSE [c EXCEPT !.selectedAnswer = -1, !.hasAnswered = FALSE,
                 !.showExplanation = FALSE, !.effectPending = FALSE]

\* variant: the effect never runs with the render, also after a click
commit_deferred(q, q2, c, discrete) ==
  LET flushed == IF c.mounted /\ c.effectPending THEN cardSync(q, c) ELSE c
  IN IF ~Mounted(q2) THEN NoCard
     ELSE IF ~c.mounted
          THEN [NoCard EXCEPT !.mounted = TRUE, !.effectPending = TRUE]
     ELSE IF Deps(q2) # Deps(q)
          THEN [flushed EXCEPT !.effectPending = TRUE]
     ELSE flushed

\* the card after the render that takes the page from q to q2, c being the
\* card with the handler's own updates.  An effect still pending runs
\* before the render; the card is unmounted, mounted with its initial
\* state, or kept; its effect is scheduled when it is mounted or its
\* dependencies changed, and runs at once when the render comes from a
\* click
commit(q, q2, c, discrete) ==
  LET flushed == IF c.mounted /\ c.effectPending THEN cardSync(q, c) ELSE c
      next == IF ~Mounted(q2) THEN NoCard
              ELSE IF ~c.mounted
                   THEN [NoCard EXCEPT !.mounted = TRUE,
                                       !.effectPending = TRUE]
              ELSE IF Deps(q2) # Deps(q)
                   THEN [flushed EXCEPT !.effectPending = TRUE]
              ELSE flushed
  IN IF discrete /\ next.mounted /\ next.effectPending
     THEN cardSync(q2, next) ELSE next

\* a step of the page that renders; last holds the outcome of a fetch
\* only in the state the fetch resolves to, posted a body only in the
\* state it is sent in
Renders(q2, c, n2, discrete) ==
  /\ quiz' = q2
  /\ card' = commit(quiz, q2, c, discrete)
  /\ net' = [n2 EXCEPT !.last = IF n2.fetches = net.fetches THEN "none"
                                ELSE @,
                       !.posted = Undef]
  /\ UNCHANGED <<aiVars, apiVars, button>>

Inflight(n) == n.fetches[""] + n.fetches["1"] + n.fetches["2"]

\* fetchQuestions(step) up to its await: loading, no error, the request
fetchQuestions(q, n, step) ==
  [quiz |-> [q EXCEPT !.loading = TRUE, !.error = ""],
   net |-> [n EXCEPT !.fetches[step] = @ + 1, !.last = "none"]]

\* the effect on [router.isReady, router.query.step]: the route gets step s
Navigate ==
  \E s \in StepArgs :
    /\ s # quiz.routerStep
    /\ Inflight(net) < MaxFetches
    /\ LET f == fetchQuestions([quiz EXCEPT !.routerStep = s,
                                            !.currentStep = s], net, s)
       IN Renders(f.quiz, card, f.net, FALSE)

\* data.map(q => ({...q, options: JSON.parse(q.options)}))
parsedQuestions(data) ==
  [i \in 1..Len(data) |->
     [data[i] EXCEPT !.options = JSONparse(data[i].options.toks).value]]

\* what a fetch for step s can bring: no answer, or the list of the server,
\* which the page shuffles again when there is no step
Responses(s) ==
  {[failed |-> TRUE, list |-> <<>>]}
  \cup (IF s # ""
        THEN {[failed |-> FALSE,
               list |-> parsedQuestions(
                          handleGet(Query("", s, Digits(20)), steps,
                                    questions, scores, <<>>).list)]}
        ELSE {LET data == parsedQuestions(
                            handleGet(Query("", "", Digits(15)), steps,
                                      questions, scores, perm).list)
              IN [failed |-> FALSE,
                  list |-> [i \in 1..Len(data) |-> data[again[i]]]] :
                perm \in Perms(Len(allQuestions(steps, Digits(15)))),
                again \in Perms(Len(allQuestions(steps, Digits(15))))})

\* fetchQuestions from the answer of the fetch to its finally
FetchResolve ==
  \E s \in StepArgs :
    /\ net.fetches[s] > 0
    /\ \E data \in Responses(s) :
         LET outcome == IF data.failed THEN "failed"
                        ELSE IF Len(data.list) = 0 THEN "empty"
                        ELSE "questions"
             q2 == IF outcome = "questions"
                   THEN [quiz EXCEPT !.questions = data.list,
                                     !.loading = FALSE]
                   ELSE [quiz EXCEPT !.error = outcome, !.loading = FALSE]
             n2 == [net EXCEPT !.fetches[s] = @ - 1, !.last = outcome,
                               !.issued = IF outcome = "questions" THEN 0
                                          ELSE @]
         IN Renders(q2, card, n2, FALSE)

\* the options a click is tried on: the first and the last
ClickIndices(question) == {0, Len(question.options.elems) - 1}

\* handleOptionClick of the card, with handleAnswer of the page
handleOptionClick ==
  /\ card.mounted
  /\ ~card.hasAnswered
  /\ card.timers < MaxTimers
  /\ \E optionIndex \in ClickIndices(currentQuestion(quiz)) :
       LET question == currentQuestion(quiz)
           newAnswer == [questionId |-> question.id,
                         selectedAnswer |-> optionIndex,
                         isCorrect |-> Num(2 * optionIndex) = question.correct]
           q2 == [quiz EXCEPT !.answers =
                    [k \in DOMAIN quiz.answers \cup {question.id} |->
                       IF k = question.id THEN newAnswer
                       ELSE quiz.answers[k]]]
           c == [card EXCEPT !.selectedAnswer = optionIndex,
                             !.hasAnswered = TRUE, !.timers = @ + 1]
       IN Renders(q2, c, net, TRUE)

\* the callback of setTimeout(..., 500)
RevealTimer ==
  /\ card.timers > 0
  /\ Renders(quiz, [card EXCEPT !.showExplanation = TRUE, !.timers = @ - 1],
             net, FALSE)

\* the card's effect, run after a render that did not come from a click
CardEffect ==
  /\ card.mounted /\ card.effectPending
  /\ card' = cardSync(quiz, card)
  /\ net' = [net EXCEPT !.last = "none", !.posted = Undef]
  /\ UNCHANGED <<quiz, aiVars, apiVars, button>>

handleNext ==
  /\ View(quiz) = "Quiz"
  /\ quiz.currentIndex < Len(quiz.questions) - 1
  /\ Renders([quiz EXCEPT !.currentIndex = @ + 1], card, net, TRUE)

handlePrevious ==
  /\ View(quiz) = "Quiz"
  /\ quiz.currentIndex > 0
  /\ Renders([quiz EXCEPT !.currentIndex = @ - 1], card, net, TRUE)

\* the button of the header that shows or hides the navigation panel
ToggleNavigation ==
  /\ View(quiz) = "Quiz"
  /\ Renders([quiz EXCEPT !.showNavigation = ~@], card, net, TRUE)

handleQuestionJump ==
  /\ View(quiz) = "Quiz" /\ quiz.showNavigation
  /\ \E index \in 0..(Len(quiz.questions) - 1) :
       Renders([quiz EXCEPT !.currentIndex = index, !.showNavigation = FALSE],
               card, net, TRUE)

\* the body handleSubmitQuiz posts from page state q; duration, a difference
\* of two clock readings that nothing here reads, is left out of the body
scoreBody(q) ==
  LET score == Cardinality({id \in DOMAIN q.answers : q.answers[id].isCorrect})
  IN ScoreBody(Num(2 * score), Num(2 * Len(q.questions)),
               percentageOf(Num(2 * score), Num(2 * Len(q.questions))),
               IF q.currentStep = "" THEN Null ELSE Str(<<q.currentStep>>))

\* handleSubmitQuiz up to its await: the button shows on the last
\* question; with unanswered questions the confirm must be accepted
handleSubmitQuiz ==
  /\ View(quiz) = "Quiz"
  /\ quiz.currentIndex = Len(quiz.questions) - 1
  /\ net.posts < MaxPosts
  /\ net' = [net EXCEPT !.posts = @ + 1, !.issued = @ + 1, !.last = "none",
                        !.posted = scoreBody(quiz)]
  /\ UNCHANGED <<quiz, card, aiVars, apiVars, button>>

\* handleSubmitQuiz after the await, whatever became of the request
ScoreResolve ==
  /\ net.posts > 0
  /\ Renders([quiz EXCEPT !.showFinalResults = TRUE], card,
             [net EXCEPT !.posts = @ - 1], FALSE)

resetQuiz ==
  /\ View(quiz) = "Results"
  /\ Inflight(net) < MaxFetches
  /\ LET f == fetchQuestions([quiz EXCEPT !.questions = <<>>,
                                          !.currentIndex = 0,
                                          !.answers = <<>>,
                                          !.showFinalResults = FALSE],
                             net, quiz.currentStep)
     IN Renders(f.quiz, card, f.net, TRUE)

\* the Try Again button of the error view
TryAgain ==
  /\ View(quiz) = "Error"
  /\ Inflight(net) < MaxFetches
  /\ LET f == fetchQuestions(quiz, net, quiz.currentStep)
     IN Renders(f.quiz, card, f.net, TRUE)

QuizNext ==
  \/ Navigate \/ FetchResolve \/ TryAgain \/ resetQuiz
  \/ handleOptionClick \/ RevealTimer \/ CardEffect
  \/ handleNext \/ handlePrevious \/ ToggleNavigation \/ handleQuestionJump
  \/ handleSubmitQuiz \/ ScoreResolve

\* the step collections the page is served from: one question of step 1,
\* none of step 2, one of step 3
QuizSteps ==
  [step \in {"1", "2", "3"} |->
     CASE step = "1" -> <<StepDoc(101, 1, Undef, Undef)>>
       [] step = "2" -> <<>>
       [] OTHER -> <<StepDoc(103, 1, Num(6), Str(<<>>))>>]

QuizInit ==
  /\ questions = <<>> /\ steps = QuizSteps /\ scores = <<>> /\ nextId = 1
  /\ apiKey = TRUE /\ req = IdleReq /\ res = IdleRes
  /\ AiIdle /\ UiIdle

SpecQuiz == QuizInit /\ [][QuizNext]_vars

-----------------------------------------------------------------------------
(* The GenerateButton component *)

\* at most this many requests of the component in flight
MaxGenerations == 2

\* the options of the two selects of the form, and two topics typed in
PromptCounts == {3, 5, 10, 15, 20}
PromptDifficulties == {"Easy", "Medium", "Hard"}
PromptTopics == {"", "t"}

PendingCount(b) == b.pending.quick + b.pending.custom

\* {showPromptForm && !isGenerating && <form .../>}
FormShown(b) == b.showPromptForm /\ ~b.isGenerating

\* a handler up to its await: the flag, the messages cleared, the request
started(b, kind) ==
  [b EXCEPT !.isGenerating = TRUE, !.error = "", !.success = "",
            !.pending[kind] = @ + 1]

\* variant: the quick-generate buttons are never disabled
handleQuickGenerate_enabled ==
  /\ PendingCount(button) < MaxGenerations
  /\ button' = started(button, "quick")
  /\ UNCHANGED <<aiVars, apiVars, uiVars>>

\* a click on a quick-generate button, which isGenerating disables
handleQuickGenerate ==
  /\ ~button.isGenerating
  /\ PendingCount(button) < MaxGenerations
  /\ button' = started(button, "quick")
  /\ UNCHANGED <<aiVars, apiVars, uiVars>>

\* the Custom Generate button, which isGenerating disables
TogglePromptForm ==
  /\ ~button.isGenerating
  /\ button' = [button EXCEPT !.showPromptForm = ~@]
  /\ UNCHANGED <<aiVars, apiVars, uiVars>>

\* the inputs of the form
EditPrompt ==
  /\ FormShown(button)
  /\ \/ \E topic \in PromptTopics :
          button' = [button EXCEPT !.prompt.topic = topic]
     \/ \E count \in PromptCounts :
          button' = [button EXCEPT !.prompt.count = count]
     \/ \E difficulty \in PromptDifficulties :
          button' = [button EXCEPT !.prompt.difficulty = difficulty]
  /\ UNCHANGED <<aiVars, apiVars, uiVars>>

\* the Cancel button of the form
CancelPromptForm ==
  /\ FormShown(button)
  /\ button' = [button EXCEPT !.showPromptForm = FALSE]
  /\ UNCHANGED <<aiVars, apiVars, uiVars>>

\* the submit of the form
handleCustomGenerate ==
  /\ FormShown(button)
  /\ PendingCount(button) < MaxGenerations
  /\ button' = started(button, "custom")
  /\ UNCHANGED <<aiVars, apiVars, uiVars>>

\* a handler from the answer of its request to its finally: the response
\* is ok, is not ok, or the fetch or the reading of the body threw
GenerationResolve ==
  \E kind \in {"quick", "custom"} :
    /\ button.pending[kind] > 0
    /\ \E outcome \in {"ok", "response", "thrown"} :
         LET done == [button EXCEPT !.isGenerating = FALSE,
                                    !.pending[kind] = @ - 1]
         IN button' =
              IF outcome # "ok" THEN [done EXCEPT !.error = outcome]
              ELSE IF kind = "quick" THEN [done EXCEPT !.success = kind]
              ELSE [done EXCEPT !.success = kind,
                                !.showPromptForm = FALSE,
                                !.prompt = Button0.prompt]
    /\ UNCHANGED <<aiVars, apiVars, uiVars>>

ButtonNext ==
  \/ handleQuickGenerate \/ TogglePromptForm \/ EditPrompt
  \/ CancelPromptForm \/ handleCustomGenerate \/ GenerationResolve

SpecButton == Init /\ [][ButtonNext]_vars

-----------------------------------------------------------------------------
(* Properties of the Gemini client and the validator (SpecGemini) *)

\* the call got a 2xx answer whose envelope carries a text
ReachedText(c) ==
  /\ c.key
  /\ c.up.t = "http"
  /\ c.up.status >= 200 /\ c.up.status <= 299
  /\ c.up.body.t = "envelope"
  /\ c.up.body.candidates.t = "array"
  /\ Len(c.up.body.candidates.elems) > 0

TextOf(c) == c.up.body.candidates.elems[1]

\* the parse of the span of a text from its first "[" to its last "]"
HeldIn(text) == JSONparse(jsonMatch(text.toks).toks)

\* the span of the call's text is a well-formed array of objects
ArrayOfObjects(c) ==
  /\ ReachedText(c)
  /\ HeldIn(TextOf(c)).ok
  /\ HeldIn(TextOf(c)).value.t = "array"
  /\ \A i \in 1..Len(HeldIn(TextOf(c)).value.elems) :
       HeldIn(TextOf(c)).value.elems[i].t = "object"

ElemsOf(c) == HeldIn(TextOf(c)).value.elems

\* the three checks as the claim words them
ClaimedPass(e) ==
  /\ e.t = "object"
  /\ e.question.t = "string"
  /\ e.options.t = "array" /\ Len(e.options.elems) = 4
  /\ e.correct.t = "number" /\ 0 <= e.correct.v2 /\ e.correct.v2 < 8

\* the three checks with a question that is a non-empty string
SalvagePass(e) == ClaimedPass(e) /\ Len(e.question.s) > 0

\* record r is element e with its text trimmed and its options as strings
RecordOf(r, e) ==
  /\ r.question = Str(Trim(e.question.s))
  /\ r.correct = e.correct
  /\ Len(r.options.elems) = Len(e.options.elems)
  /\ \A i \in 1..Len(e.options.elems) :
       r.options.elems[i] = StringOf(e.options.elems[i])

ReturnsExactly(result, elems, Pass(_)) ==
  /\ Len(result) = Len(SelectSeq(elems, Pass))
  /\ \A i \in 1..Len(result) : RecordOf(result[i], SelectSeq(elems, Pass)[i])

\* C1, as stated: on a text holding a well-formed array of objects the
\* validator returns, in order, the elements whose question is a string,
\* whose options are 4 and whose correct is a number in [0,4)
C1_AsStated ==
  (out # Pending /\ ArrayOfObjects(call))
    => ReturnsExactly(out.questions, ElemsOf(call), ClaimedPass)

\* C1, amended: on a text whose span from the first "[" to the last "]" is
\* a well-formed array of objects the validator returns, in order and
\* normalised, exactly the elements whose question is a non-empty string,
\* whose options are an array of 4 and whose correct is a number in [0,4);
\* an element with correct = 4 is skipped
C1_Salvage ==
  (out # Pending /\ ArrayOfObjects(call))
    => /\ ReturnsExactly(out.questions, ElemsOf(call), SalvagePass)
       /\ out.ok <=> Len(out.questions) > 0

\* a batch of two in which the element with correct = 4 was skipped
C1_Witness ==
  /\ out # Pending /\ ArrayOfObjects(call)
  /\ out.ok
  /\ Len(ElemsOf(call)) = 2
  /\ Len(out.questions) = 1
  /\ \E i \in 1..2 :
       /\ ElemsOf(call)[i].correct = Num(8)
       /\ Len(ElemsOf(call)[i].options.elems) = 4
       /\ ElemsOf(call)[i].question = Q1

\* C4: every returned record has exactly 4 options, each a string, and a
\* correct index that is an integer in [0,3]
C4_IntegerIndex ==
  (out # Pending /\ out.ok)
    => \A i \in 1..Len(out.questions) :
         /\ Len(out.questions[i].options.elems) = 4
         /\ \A k \in 1..4 : out.questions[i].options.elems[k].t = "string"
         /\ out.questions[i].correct.t = "number"
         /\ out.questions[i].correct.v2 % 2 = 0
         /\ out.questions[i].correct.v2 \in {0, 2, 4, 6}

\* C5: every returned record has a non-empty question text
C5_NonEmptyQuestion ==
  (out # Pending /\ out.ok)
    => \A i \in 1..Len(out.questions) :
         /\ out.questions[i].question.t = "string"
         /\ Len(out.questions[i].question.s) > 0

\* the four failure kinds of a response that is not ok
KindsOf(msg) ==
  {k \in {"authentication", "rate-limit", "unavailable", "upstream"} :
     \/ k = "authentication" /\ msg = <<"Invalid", "Gemini", "API", "key">>
     \/ k = "rate-limit" /\ Len(msg) >= 2 /\ SubSeq(msg, 1, 2) = <<"API", "quota">>
     \/ k = "unavailable" /\ Len(msg) >= 4
          /\ SubSeq(msg, 1, 4) = <<"Gemini", "API", "service", "unavailable.">>
     \/ k = "upstream" /\ Len(msg) >= 3
          /\ SubSeq(msg, 1, 3) = <<"Gemini", "API", "error:">>}

ClaimedKind(status) ==
  IF status = 401 THEN "authentication"
  ELSE IF status = 429 THEN "rate-limit"
  ELSE IF status >= 500 THEN "unavailable"
  ELSE "upstream"

\* C9: a response that is not 2xx is classified by its status alone: 401
\* authentication, 429 rate limit, 500 and above unavailable, any other the
\* generic error carrying the status code; one kind, and no question
C9_Classification ==
  (out # Pending /\ call.key /\ call.up.t = "http"
     /\ (call.up.status < 200 \/ call.up.status > 299))
    => /\ ~out.ok
       /\ out.questions = <<>>
       /\ KindsOf(out.error) = {ClaimedKind(call.up.status)}
       /\ ClaimedKind(call.up.status) = "upstream"
            => out.error[4] = ToString(call.up.status)

\* a server error of exactly 500 classified as unavailable
C9_Witness ==
  /\ out # Pending /\ call.key /\ call.up.t = "http"
  /\ call.up.status = 500
  /\ KindsOf(out.error) = {"unavailable"}

-----------------------------------------------------------------------------
(* Properties of the server (Spec) *)

\* request rq, answered by rs, was a generation that called the client
CalledIn(rq, rs, key) ==
  /\ rs.kind = "generate"
  /\ rq.method = "POST"
  /\ rq.body.prompt.t = "string" /\ Len(rq.body.prompt.s) > 0
  /\ key

\* the client call of request rq
CallOf(rq, key) == [key |-> key, up |-> rq.up]

GenCalled == CalledIn(req, res, apiKey)
GenCall == CallOf(req, apiKey)

\* ... and its text held a well-formed array none of whose elements
\* survives the per-element checks
NoSurvivorIn(rq, rs, key) ==
  /\ CalledIn(rq, rs, key) /\ ReachedText(CallOf(rq, key))
  /\ LET held == HeldIn(TextOf(CallOf(rq, key)))
     IN /\ held.ok
        /\ held.value.t = "array"
        /\ \A i \in 1..Len(held.value.elems) : ~SalvagePass(held.value.elems[i])

\* C2: when no element of the parsed array survives the checks the
\* validator fails with the no-valid-questions error and the request
\* persists nothing
C2_NoValidQuestions ==
  [][NoSurvivorIn(req', res', apiKey')
       => /\ ~res'.ai.ok
          /\ res'.ai.error = <<"No", "valid", "questions", "could", "be",
                               "generated", "from", "the", "AI", "response">>
          /\ ~res'.success
          /\ questions' = questions]_vars

\* ... and its text was not valid JSON, or not an array
MalformedIn(rq, rs, key) ==
  /\ CalledIn(rq, rs, key) /\ ReachedText(CallOf(rq, key))
  /\ LET held == HeldIn(TextOf(CallOf(rq, key)))
     IN ~held.ok \/ held.value.t # "array"

MalformedErrors ==
  {<<"Failed", "to", "parse", "questions", "from", "Gemini", "response.",
     "The", "AI", "response", "was", "not", "in", "the", "expected",
     "format.">>,
   <<"Generated", "response", "is", "not", "an", "array", "of",
     "questions">>}

\* C3: a text that is not valid JSON, or whose value is not an array, fails
\* the validator with a malformed-response error; nothing is salvaged,
\* nothing is returned and the store is left as it was
C3_MalformedAborts ==
  [][MalformedIn(req', res', apiKey')
       => /\ ~res'.ai.ok
          /\ res'.ai.error \in MalformedErrors
          /\ res'.ai.questions = <<>>
          /\ ~res'.success /\ res'.status # 200
          /\ res'.saved = <<>>
          /\ questions' = questions
          /\ nextId' = nextId]_vars

\* a text in which a well-formed array follows a bracketed remark: the
\* span is not valid JSON and the batch was aborted with the store non-empty
C3_Witness ==
  /\ MalformedIn(req, res, apiKey)
  /\ TextOf(GenCall) = Text(<<LB, RB, Prose, LB, Valid1, RB>>)
  /\ res.ai.error = MsgParse
  /\ Len(questions) > 0

\* the options of a stored question, read back
OptionsOf(doc) == JSONparse(doc.options.toks)

InRange(doc) ==
  /\ OptionsOf(doc).ok /\ OptionsOf(doc).value.t = "array"
  /\ doc.correct.t = "number"
  /\ 0 <= doc.correct.v2
  /\ doc.correct.v2 < 2 * Len(OptionsOf(doc).value.elems)

\* C6, as stated: every record of the AI-generated collection has
\* 0 <= correct < length(options) and exactly 4 options
C6_AsStated ==
  \A i \in 1..Len(questions) :
    InRange(questions[i]) /\ Len(OptionsOf(questions[i]).value.elems) = 4

\* C6, amended: every record of the AI-generated collection has
\* 0 <= correct < length(options) and at least 2 options, and every record
\* saved by POST /api/generate has exactly 4
C6_RangeAndCount ==
  /\ \A i \in 1..Len(questions) :
       InRange(questions[i]) /\ Len(OptionsOf(questions[i]).value.elems) >= 2
  /\ (res.kind = "generate" /\ res.success)
       => \A i \in 1..Len(res.saved) :
            /\ InRange(res.saved[i])
            /\ Len(OptionsOf(res.saved[i]).value.elems) = 4
            /\ \E k \in 1..Len(questions) : questions[k] = res.saved[i]

\* a created question with 3 options stored next to a generated one
C6_Witness ==
  /\ res.kind = "generate" /\ res.success /\ Len(res.saved) = 1
  /\ Len(questions) = 2
  /\ Len(OptionsOf(questions[1]).value.elems) = 3
  /\ questions[2] = res.saved[1]

SameQuestion(item, doc) ==
  /\ item.question = doc.question
  /\ JSONparse(item.options.toks) = JSONparse(doc.options.toks)
  /\ item.correct = doc.correct
  /\ item.subject = doc.subject
  /\ item.difficulty = doc.difficulty

\* C7: a step-agnostic listing with a limit that covers everything
\* returns every inserted question with its question, options, correct,
\* subject and difficulty
C7_RoundTrip ==
  (res.kind = "get" /\ req.query.type = "" /\ req.query.step = ""
     /\ req.query.limit = Digits(6))
    => \A i \in 1..Len(questions) :
         \E k \in 1..Len(res.list) : SameQuestion(res.list[k], questions[i])

ClaimedStatus(up) ==
  IF up.t = "http" /\ up.status = 401 THEN 401
  ELSE IF up.t = "http" /\ up.status = 429 THEN 429
  ELSE IF up.t = "http" /\ up.status >= 500 THEN 503
  ELSE 500

\* C8: the status of a failed generation follows the failure kind of the
\* client: upstream 401 gives 401, 429 gives 429, 500 and above gives 503,
\* any other failure 500
C8_StatusMapping ==
  (GenCalled /\ ~res.success) => res.status = ClaimedStatus(req.up)

\* C10: without the credential a generation request sends nothing
\* upstream, writes nothing to the store and, when it is a well-formed
\* POST, is answered with the configuration error; the client itself
\* throws its configuration error before any fetch
C10_NoKey ==
  [][(res'.kind = "generate" /\ ~apiKey')
       => /\ res'.fetches = 0
          /\ ~res'.success
          /\ questions' = questions /\ nextId' = nextId
          /\ (req'.method = "POST" /\ req'.body.prompt.t = "string"
                /\ Len(req'.body.prompt.s) > 0)
               => /\ res'.status = 500
                  /\ res'.error = "Gemini API key not configured. Please set GEMINI_API_KEY in environment variables."
          /\ \A up \in ApiUpstreams :
               /\ ~generateQuestionsWithGemini(FALSE, up).ok
               /\ generateQuestionsWithGemini(FALSE, up).fetches = 0
               /\ generateQuestionsWithGemini(FALSE, up).error[1]
                    = "GEMINI_API_KEY"]_vars

\* a well-formed POST answered with the configuration error
C10_Witness ==
  /\ res.kind = "generate" /\ ~apiKey
  /\ req.method = "POST" /\ req.body.prompt = Str(<<"t">>)
  /\ res.status = 500 /\ res.fetches = 0

-----------------------------------------------------------------------------
(* Properties of question creation, score submission and deletion *)

\* the options of a creation body read as a JSON array
ArrayIn(options) ==
  IF options.t = "array" THEN [ok |-> TRUE, value |-> options]
  ELSE IF options.t = "text" /\ JSONparse(options.toks).ok
          /\ JSONparse(options.toks).value.t = "array"
       THEN [ok |-> TRUE, value |-> JSONparse(options.toks).value]
  ELSE [ok |-> FALSE, value |-> Arr(<<>>)]

\* the three reasons the claim gives for a 400
Claimed400(body) ==
  \/ ~ArrayIn(body.options).ok
  \/ Len(ArrayIn(body.options).value.elems) < 2
  \/ body.correct.t # "number"
  \/ body.correct.v2 < 0
  \/ body.correct.v2 > 2 * (Len(ArrayIn(body.options).value.elems) - 1)

\* C11: a creation request is answered 400 and inserts nothing when its
\* options are not a JSON array of at least 2 items, when correct is not a
\* number or when correct is outside [0, length(options)-1]; any other
\* creation request inserts exactly one record and is answered 201
C11_Creation ==
  [][req'.kind = "post"
       => IF Claimed400(req'.body)
          THEN res'.status = 400 /\ questions' = questions
          ELSE /\ res'.status = 201
               /\ Len(questions') = Len(questions) + 1
               /\ SubSeq(questions', 1, Len(questions)) = questions]_vars

\* p is the number score / total * 100
IsPercentage(p, score, total) ==
  /\ total.v2 # 0
  /\ \/ p.t = "number" /\ p.v2 * total.v2 = 200 * score.v2
     \/ p.t = "fraction" /\ p.num * total.v2 = 100 * score.v2 * p.den

\* C12: a score submission that omits percentage is answered 201, and the
\* percentage stored and the percentage returned both equal
\* score / total * 100
C12_ComputedPercentage ==
  (req.kind = "score" /\ req.body.score.t = "number"
     /\ req.body.total.t = "number" /\ req.body.percentage = Undef)
    => /\ res.status = 201
       /\ IsPercentage(res.created.percentage, req.body.score, req.body.total)
       /\ IsPercentage(res.returned.percentage, req.body.score,
                       req.body.total)

\* C13: every stored score record has 0 <= score <= total
C13_ScoreWithinTotal ==
  \A i \in 1..Len(scores) :
    0 <= scores[i].score.v2 /\ scores[i].score.v2 <= scores[i].total.v2

\* identifier id names a record of the collection
Present(id, coll) == id.hex /\ \E k \in 1..Len(coll) : coll[k].id = id.n

\* the records of the collection that ids does not name
Kept(ids, coll) ==
  SelectSeq(coll, LAMBDA d :
    ~\E i \in 1..Len(ids.elems) : ids.elems[i].hex /\ ids.elems[i].n = d.id)

\* C14: a delete whose non-empty ids array holds an identifier that is not
\* in the store is answered 200, counts only the records that were removed
\* (0 for the absent identifier) and removes no record that ids does not name
C14_AbsentIdentifier ==
  [][(/\ req'.kind = "delete"
      /\ req'.ids.t = "array"
      /\ \E i \in 1..Len(req'.ids.elems) :
           ~Present(req'.ids.elems[i], questions))
       => /\ res'.status = 200
          /\ res'.count = Len(questions) - Len(Kept(req'.ids, questions))
          /\ questions' = Kept(req'.ids, questions)]_vars

\* ids is missing, not an array, or empty
IdsMissing(ids) == ids.t # "array" \/ Len(ids.elems) = 0

\* ids holds a string that is not an identifier
Malformed(ids) == \E i \in 1..Len(ids.elems) : ~ids.elems[i].hex

\* the answer to a delete that goes through: the count is the number of
\* records removed, and those are the records ids names
Deleted(ids, rs, before, after) ==
  /\ rs.status = 200
  /\ rs.count = Len(before) - Len(after)
  /\ after = Kept(ids, before)

C16_StepsUnchanged == steps = StepData

\* a delete naming a step question was answered 200 with count 0 while
\* the AI-generated collection held a record
C16_Witness ==
  /\ req.kind = "delete" /\ req.ids = Arr(<<OidStr(101)>>)
  /\ res.status = 200 /\ res.count = 0
  /\ Len(questions) > 0
  /\ \E k \in 1..Len(steps["1"]) : steps["1"][k].id = 101

-----------------------------------------------------------------------------
(* Properties of the quiz page (SpecQuiz) *)

\* C17: an answer once recorded for a question is never changed by a later
\* step, until the quiz is reset and the answers are cleared
C17_SelectionLocked ==
  [][\/ DOMAIN quiz'.answers = {}
     \/ \A id \in DOMAIN quiz.answers :
          /\ id \in DOMAIN quiz'.answers
          /\ quiz'.answers[id] = quiz.answers[id]]_vars

\* C18: between the loading of a question set and the results view the
\* page issues one score request: never a second one, and the results view
\* shows after exactly one
C18_OneScoreRequest ==
  /\ net.issued <= 1
  /\ View(quiz) = "Results" => net.issued = 1

\* C19: from Loading the page gets to the quiz when the fetch brings a
\* non-empty question set, and only then, and to the error view when it
\* brings an empty set or fails; no step leaves the error view or the
\* results view
C19_Lifecycle ==
  [][/\ (View(quiz) = "Loading" /\ net'.last = "questions")
          => View(quiz') = "Quiz"
     /\ (View(quiz) = "Loading" /\ net'.last \in {"empty", "failed"})
          => View(quiz') = "Error"
     /\ (View(quiz) = "Loading" /\ View(quiz') = "Quiz")
          => net'.last = "questions"
     /\ View(quiz) = "Error" => View(quiz') = "Error"
     /\ View(quiz) = "Results" => View(quiz') = "Results"]_vars

\* the questions of the loaded set with a recorded correct answer
CorrectlyAnswered(q) ==
  {k \in 1..Len(q.questions) :
     /\ q.questions[k].id \in DOMAIN q.answers
     /\ q.answers[q.questions[k].id].isCorrect}

\* C20: the body of a score request has score = the number of questions of
\* the loaded set with a recorded correct answer, total = the number of
\* questions of the set, percentage = score / total * 100, and a score
\* that does not exceed the total
C20_PostedScore ==
  net.posted # Undef
    => /\ net.posted.score = Num(2 * Cardinality(CorrectlyAnswered(quiz)))
       /\ net.posted.total = Num(2 * Len(quiz.questions))
       /\ IsPercentage(net.posted.percentage, net.posted.score,
                       net.posted.total)
       /\ net.posted.score.v2 <= net.posted.total.v2

-----------------------------------------------------------------------------
(* Properties of the client's one request (SpecGemini) *)

\* C21: a call of generateQuestionsWithGemini sends at most one request to
\* the upstream service, whatever its outcome: none without a key, one
\* otherwise, and no failure of the response, of the parse or of the
\* validation adds a second
C21_OneUpstreamRequest ==
  out # Pending
    => /\ out.fetches <= 1
       /\ out.fetches = 1 <=> call.key

C21_Witness ==
  /\ out # Pending
  /\ ~out.ok
  /\ out.error = MsgUnavailable
  /\ out.fetches = 1

-----------------------------------------------------------------------------
(* Properties of the server's collections (Spec) *)

\* the positions of 1..n whose insert did not fail, in order
InsertedOf(n, fail) == SelectSeq([i \in 1..n |-> i], LAMBDA i : i \notin fail)

\* saved record r is validated question v with the difficulty of body
SavedFrom(r, v, body) ==
  /\ r.question = v.question
  /\ JSONparse(r.options.toks) = [ok |-> TRUE, value |-> v.options]
  /\ r.correct = v.correct
  /\ r.explanation = v.explanation /\ r.subject = v.subject
  /\ r.difficulty = (IF body.difficulty = Undef THEN Str(<<"Medium">>)
                     ELSE body.difficulty)
  /\ r.type = "ai-generated"

\* C22: when the client has returned validated questions, the request is
\* answered 200 whichever inserts fail; the saved list is, in validator
\* order, the validated questions whose insert did not fail, each with the
\* request's difficulty ('Medium' by default), and the store grows by
\* exactly these records
C22_InsertFailureSkipped ==
  [][(req'.kind = "generate" /\ res'.kind = "generate" /\ res'.ai.ok)
       => LET v == res'.ai.questions
              kept == InsertedOf(Len(v), req'.fail)
          IN /\ res'.status = 200 /\ res'.success
             /\ Len(res'.saved) = Len(kept)
             /\ \A k \in 1..Len(kept) :
                  SavedFrom(res'.saved[k], v[kept[k]], req'.body)
             /\ questions' = questions \o res'.saved
             /\ \A k \in 1..Len(res'.saved) :
                  /\ \A j \in 1..Len(questions) :
                       questions[j].id # res'.saved[k].id
                  /\ \A j \in 1..Len(res'.saved) :
                       res'.saved[j].id = res'.saved[k].id => j = k]_vars

\* two validated questions, the insert of the first failed, the second
\* saved
C22_Witness ==
  /\ req.kind = "generate" /\ res.kind = "generate" /\ res.ai.ok
  /\ Len(res.ai.questions) = 2 /\ req.fail = {1}
  /\ res.status = 200 /\ Len(res.saved) = 1
  /\ res.saved[1].question = res.ai.questions[2].question
  /\ questions # <<>> /\ questions[Len(questions)] = res.saved[1]


\* C25: every request leaves the score records there were, in place and
\* unchanged; a score submission answered 201 adds one record, with the
\* score and total it sent and an identifier of its own, and no other
\* request adds any
C25_ScoresImmutable ==
  [][/\ Len(scores') >= Len(scores)
     /\ SubSeq(scores', 1, Len(scores)) = scores
     /\ IF req'.kind = "score" /\ res'.status = 201
        THEN /\ Len(scores') = Len(scores) + 1
             /\ scores'[Len(scores')].score = req'.body.score
             /\ scores'[Len(scores')].total = req'.body.total
             /\ \A k \in 1..Len(scores) :
                  scores[k].id # scores'[Len(scores')].id
        ELSE scores' = scores]_vars

\* a delete that names the identifier of a score record went through and
\* the record is still there
C25_Witness ==
  /\ req.kind = "delete" /\ res.status = 200
  /\ \E k \in 1..Len(scores) : \E i \in 1..Len(req.ids.elems) :
       req.ids.elems[i] = OidStr(scores[k].id)

\* the request names the identifier of record d in its ids and goes through
DeletesIt(rq, rs, d) ==
  /\ rq.kind = "delete" /\ rs.status = 200
  /\ \E i \in 1..Len(rq.ids.elems) : rq.ids.elems[i] = OidStr(d.id)

\* C26: a record of the AI-generated collection stays in it unchanged
\* through every request except a delete whose ids names it, and no request
\* leaves a different record under its identifier
C26_QuestionsKept ==
  [][\A k \in 1..Len(questions) :
       /\ \/ \E j \in 1..Len(questions') : questions'[j] = questions[k]
          \/ DeletesIt(req', res', questions[k])
       /\ \A j \in 1..Len(questions') :
            questions'[j].id = questions[k].id
              => questions'[j] = questions[k]]_vars

\* a question was created while the collection held another one, which is
\* still there
C26_Witness ==
  /\ req.kind = "post" /\ res.status = 201
  /\ Len(questions) = 2
  /\ questions[2].id = res.created.id
  /\ questions[1].id # questions[2].id

-----------------------------------------------------------------------------
(* Properties of the mixed listing (SpecListing) *)

\* the documents of collection coll among its first n by questionNumber
\* (all of them when n = 0)
FirstByNumber(coll, n) ==
  {k \in 1..Len(coll) :
     n = 0 \/ Cardinality({j \in 1..Len(coll) :
                 coll[j].questionNumber < coll[k].questionNumber}) < n}

\* the identifiers a mixed listing with limit n chooses from: of each step
\* collection the first ceil(n / 3) documents
ChosenIds(st, n) ==
  UNION {{st[step][k].id : k \in FirstByNumber(st[step], (n + 2) \div 3)} :
           step \in {"1", "2", "3"}}

\* the request was GET /api/questions?limit=N without a step
MixedWithLimit(rq, rs) ==
  /\ rq.kind = "get" /\ rs.kind = "get"
  /\ rq.query.type = "" /\ rq.query.step = ""
  /\ rq.query.limit # Undef

-----------------------------------------------------------------------------
(* Properties of navigation, of the card and of the loads (SpecQuiz) *)

\* the card shows the recorded answer of the displayed question, locked
Locked(q, c) ==
  LET id == q.questions[q.currentIndex + 1].id
  IN /\ c.hasAnswered
     /\ c.selectedAnswer = q.answers[id].selectedAnswer

\* the displayed question has a recorded answer
ShowsAnswered(q, c) ==
  /\ c.mounted
  /\ q.questions[q.currentIndex + 1].id \in DOMAIN q.answers

C27_ExplanationOnlyAnswered ==
  (card.mounted /\ card.showExplanation)
    => currentQuestion(quiz).id \in DOMAIN quiz.answers

\* the displayed question is the response to a fetch for the selected step
\* s: some response to that fetch is the loaded set
LoadedFor(q, s) == \E data \in Responses(s) : ~data.failed /\ data.list = q.questions

\* C28: when the quiz view shows and no fetch is in flight, the loaded
\* question set is a response to the fetch for the step the route selects
C28_LatestStepLoaded ==
  (View(quiz) = "Quiz" /\ Inflight(net) = 0)
    => LoadedFor(quiz, quiz.routerStep)

\* C29: with a non-empty question set loaded the current index is within
\* it
C29_IndexInRange ==
  Len(quiz.questions) > 0
    => quiz.currentIndex >= 0 /\ quiz.currentIndex < Len(quiz.questions)

-----------------------------------------------------------------------------
(* Properties of the GenerateButton (SpecButton) *)

\* C30: isGenerating is true exactly while a request of the component is
\* in flight, and at most one is in flight at any time
C30_OneGeneration ==
  /\ button.isGenerating <=> PendingCount(button) > 0
  /\ PendingCount(button) <= 1

\* a request of the form is in flight while the form is open and hidden
\* by the flag
C30_Witness ==
  /\ button.isGenerating
  /\ button.pending.custom = 1
  /\ button.showPromptForm

=============================================================================
